---- MODULE Spec2Model ----
(***************************************************************************)
(* Model of the extraction core of Ybsnow_Order_Scraper.py:                *)
(*   YBSNowScraper.parse_orders_table, YBSNowScraper._clean_df and         *)
(*   YBSNowScraper.save_outputs.                                           *)
(* Text is a sequence of one-character strings, a DataFrame is an index    *)
(* (row labels) and a sequence of columns, each with a name, a dtype and   *)
(* one cell per row.                                                       *)
(***************************************************************************)
EXTENDS Integers, Sequences, FiniteSets, TLC

VARIABLES
    df,        \* SpecClean: the DataFrame handed to _clean_df
    cleaned,   \* SpecClean: outcome of _clean_df(df)
    cleaned2,  \* SpecClean: outcome of _clean_df on the frame cleaned holds
    html,      \* SpecSelect: the document handed to parse_orders_table
    parsed,    \* SpecSelect: outcome of parse_orders_table(html)
    orders,    \* SpecSave: the DataFrame handed to save_outputs
    failing,   \* SpecSave: the targets whose write fails in this run
    fs,        \* SpecSave: the file each output path holds
    calls,     \* SpecSave: the writes save_outputs started, in order
    saved,     \* SpecSave: what save_outputs returned or raised
    pc         \* position of the caller

cleanVars == <<df, cleaned, cleaned2>>
selectVars == <<html, parsed>>
saveVars == <<orders, failing, fs, calls, saved>>
vars == <<cleanVars, selectVars, saveVars, pc>>

\* ------------------------------------------------------------------ bounds
MaxRows == 2
MaxTables == 2

\* ------------------------------------------------------------------ text
Whitespace == {" ", "\n", "\t"}

RECURSIVE LStrip(_)
LStrip(s) ==
    IF s # <<>> /\ Head(s) \in Whitespace THEN LStrip(Tail(s)) ELSE s

RECURSIVE RStrip(_)
RStrip(s) ==
    IF s # <<>> /\ s[Len(s)] \in Whitespace
    THEN RStrip(SubSeq(s, 1, Len(s) - 1))
    ELSE s

\* str.strip()
Strip(s) == RStrip(LStrip(s))

\* str.replace("\n", " ")
ReplaceNewline(s) == [i \in 1..Len(s) |-> IF s[i] = "\n" THEN " " ELSE s[i]]

\* str(c).strip().replace("\n", " ") of line 170
NormalizeHeader(c) == ReplaceNewline(Strip(c))

\* ------------------------------------------------------------------ cells
Null == [k |-> "null", s |-> <<>>, n |-> 0]
Num(i) == [k |-> "num", s |-> <<>>, n |-> i]
Text(t) == [k |-> "text", s |-> t, n |-> 0]

DigitChar == <<"0", "1", "2", "3", "4", "5", "6", "7", "8", "9">>

RECURSIVE Digits(_)
Digits(i) ==
    IF i < 10 THEN <<DigitChar[i + 1]>>
    ELSE Append(Digits(i \div 10), DigitChar[(i % 10) + 1])

\* str(x) as Series.astype(str) applies it to one cell: a missing value
\* becomes the text "nan", a number its decimal digits.
Str(c) ==
    CASE c.k = "text" -> c.s
      [] c.k = "num" -> Digits(c.n)
      [] OTHER -> <<"n", "a", "n">>

\* mutant of StripCell: a cell left blank by the strip is turned into a
\* missing value
StripCellBlankToNull(c) ==
    LET t == Strip(Str(c)) IN IF t = <<>> THEN Null ELSE Text(t)

\* df[col].astype(str).str.strip() of line 176, for one cell
StripCell(c) == Text(Strip(Str(c)))

\* ------------------------------------------------------------------ frames
NoFrame == [index |-> <<>>, cols |-> <<>>]

AllNull(col) == \A i \in 1..Len(col.cells) : col.cells[i].k = "null"

\* df.columns = [...] of line 170
RenameColumns(f) ==
    [f EXCEPT !.cols =
        [i \in 1..Len(f.cols) |->
            [f.cols[i] EXCEPT !.name = NormalizeHeader(f.cols[i].name)]]]

KeepColumn(col) == ~AllNull(col)

\* df.dropna(axis=1, how="all") of line 172
DropEmptyColumns(f) == [f EXCEPT !.cols = SelectSeq(f.cols, KeepColumn)]

\* the loop of lines 174-176 on one column
StripColumn(col) ==
    IF col.dtype = "object"
    THEN [col EXCEPT !.cells = [i \in 1..Len(col.cells) |-> StripCell(col.cells[i])]]
    ELSE col

\* df[col] is a DataFrame, not a Series, when two columns carry the name
\* col, and a DataFrame has no attribute dtype (line 175).
DuplicateNames(f) ==
    \E i, j \in 1..Len(f.cols) : i # j /\ f.cols[i].name = f.cols[j].name

\* positions of the rows that no earlier row equals in every column
FirstOccurrences(f) ==
    SelectSeq([i \in 1..Len(f.index) |-> i],
              LAMBDA i : ~\E j \in 1..(i - 1) :
                           \A c \in 1..Len(f.cols) : f.cols[c].cells[j] = f.cols[c].cells[i])

\* df.drop_duplicates()
DropDuplicates(f) ==
    LET keep == FirstOccurrences(f) IN
    [index |-> [k \in 1..Len(keep) |-> f.index[keep[k]]],
     cols |-> [c \in 1..Len(f.cols) |->
                 [f.cols[c] EXCEPT !.cells = [k \in 1..Len(keep) |-> f.cols[c].cells[keep[k]]]]]]

\* mutant of CleanDf: duplicate rows are dropped before the frame is returned
CleanDfDedup(f) ==
    LET kept == DropEmptyColumns(RenameColumns(f)) IN
    IF DuplicateNames(kept)
    THEN [err |-> "AttributeError", df |-> NoFrame]
    ELSE [err |-> "none",
          df |-> DropDuplicates(
                     [kept EXCEPT !.cols =
                         [i \in 1..Len(kept.cols) |-> StripColumn(kept.cols[i])]])]

\* _clean_df: the outcome is the returned frame, or the exception raised.
CleanDf(f) ==
    LET kept == DropEmptyColumns(RenameColumns(f)) IN
    IF DuplicateNames(kept)
    THEN [err |-> "AttributeError", df |-> NoFrame]
    ELSE [err |-> "none",
          df |-> [kept EXCEPT !.cols =
                     [i \in 1..Len(kept.cols) |-> StripColumn(kept.cols[i])]]]

NotRun == [err |-> "notrun", df |-> NoFrame]

\* the values of the variables of the operations a specification leaves out
IdleClean == df = NoFrame /\ cleaned = NotRun /\ cleaned2 = NotRun
IdleSelect == html = <<>> /\ parsed = NotRun
IdleSave ==
    /\ orders = NoFrame
    /\ failing = {}
    /\ fs = <<>>
    /\ calls = <<>>
    /\ saved = [err |-> "notrun", paths |-> <<>>]

\* ------------------------------------------------------------------ inputs
ORDER_ID == <<"o", "r", "d", "e", "r", "_", "i", "d">>
DATE == <<"d", "a", "t", "e">>
TOTAL == <<"t", "o", "t", "a", "l">>
STATUS == <<"s", "t", "a", "t", "u", "s">>

\* the column sets the specification names; the source defines neither
REQUIRED_COLUMNS == {ORDER_ID, DATE, TOTAL}
OPTIONAL_COLUMNS == {STATUS}

\* the header rows of the input tables
HeaderLayouts ==
    { <<ORDER_ID, DATE, TOTAL>>,
      <<ORDER_ID, <<" ", "s", "h", "i", "p", "\n", "t", "o">>, <<"t", "o", "t", "a", "l", " ">> >>,
      <<DATE, <<"d", "a", "t", "e", "\n">> >>,
      <<ORDER_ID>> }

ObjectCells == {Null, Text(<<" ", "a">>), Text(<<" ">>)}
NumberCells == {Null, Num(1)}

SeqsOf(S, n) == [1..n -> S]

\* a column without its name: the dtype and one cell per row
ColumnBodies(r) ==
    {[dtype |-> "object", cells |-> cs] : cs \in SeqsOf(ObjectCells, r)}
    \cup
    {[dtype |-> "number", cells |-> cs] : cs \in SeqsOf(NumberCells, r)}

\* the frame with r rows whose i-th column is named h[i] and holds the body b[i]
Frame(r, h, b) ==
    [index |-> [i \in 1..r |-> i],
     cols |-> [i \in 1..Len(h) |->
                 [name |-> h[i], dtype |-> b[i].dtype, cells |-> b[i].cells]]]

\* ------------------------------------------------------------------ SpecClean
InitClean ==
    /\ \E r \in 0..MaxRows, h \in HeaderLayouts :
          \E b \in SeqsOf(ColumnBodies(r), Len(h)) :
              df = Frame(r, h, b)
    /\ cleaned = NotRun
    /\ cleaned2 = NotRun
    /\ IdleSelect
    /\ IdleSave
    /\ pc = "start"

Clean ==
    /\ pc = "start"
    /\ cleaned' = CleanDf(df)
    /\ pc' = "cleaned"
    /\ UNCHANGED <<df, cleaned2, selectVars, saveVars>>

CleanAgain ==
    /\ pc = "cleaned"
    /\ cleaned.err = "none"
    /\ cleaned2' = CleanDf(cleaned.df)
    /\ pc' = "recleaned"
    /\ UNCHANGED <<df, cleaned, selectVars, saveVars>>

NextClean == Clean \/ CleanAgain

SpecClean == InitClean /\ [][NextClean]_vars

\* ------------------------------------------------------------------ claims on _clean_df
ColumnNames(f) == {f.cols[i].name : i \in 1..Len(f.cols)}

\* the REQUIRED columns absent from the columns that survive steps 1 and 2
MissingRequired(f) ==
    REQUIRED_COLUMNS \ ColumnNames(DropEmptyColumns(RenameColumns(f)))

\* C1: _clean_df fails with the schema error (a ValueError "Missing required
\* columns") exactly when a REQUIRED column is absent after header
\* normalization, and succeeds when the full REQUIRED set is present.
C1_SchemaErrorIffMissing ==
    pc # "start" =>
        IF MissingRequired(df) # {}
        THEN cleaned.err = "ValueError"
        ELSE cleaned.err = "none"

\* C5: for an input with the REQUIRED columns, the frame _clean_df returns
\* holds every OPTIONAL column, and a column that was absent holds the empty
\* string in every row.
C5_OptionalBackfilled ==
    (pc # "start" /\ MissingRequired(df) = {}) =>
        /\ cleaned.err = "none"
        /\ \A o \in OPTIONAL_COLUMNS :
              \E i \in 1..Len(cleaned.df.cols) :
                  /\ cleaned.df.cols[i].name = o
                  /\ o \notin ColumnNames(RenameColumns(df)) =>
                        \A k \in 1..Len(cleaned.df.cols[i].cells) :
                            cleaned.df.cols[i].cells[k] = Text(<<>>)

HasDuplicateRows(f) ==
    \E i, j \in 1..Len(f.index) :
        i < j /\ \A c \in 1..Len(f.cols) : f.cols[c].cells[i] = f.cols[c].cells[j]

C8_Idempotent == pc = "recleaned" => cleaned2 = cleaned

C8_Witness ==
    /\ pc = "recleaned"
    /\ \E i \in 1..Len(df.cols) : Len(df.index) > 0 /\ AllNull(df.cols[i])
    /\ \E i \in 1..Len(df.cols) :
          /\ df.cols[i].dtype = "object"
          /\ \E k \in 1..Len(df.index) : df.cols[i].cells[k] = Null
          /\ \E k \in 1..Len(df.index) : df.cols[i].cells[k] = Text(<<" ">>)
    /\ Len(cleaned.df.cols) < Len(df.cols)

\* ------------------------------------------------------------------ parse_orders_table
UpperCase == <<"A", "B", "C", "D", "E", "F", "G", "H", "I", "J", "K", "L", "M",
               "N", "O", "P", "Q", "R", "S", "T", "U", "V", "W", "X", "Y", "Z">>
LowerCase == <<"a", "b", "c", "d", "e", "f", "g", "h", "i", "j", "k", "l", "m",
               "n", "o", "p", "q", "r", "s", "t", "u", "v", "w", "x", "y", "z">>

LowerChar(ch) ==
    IF \E i \in 1..Len(UpperCase) : UpperCase[i] = ch
    THEN LowerCase[CHOOSE i \in 1..Len(UpperCase) : UpperCase[i] = ch]
    ELSE ch

\* str.lower()
Lower(s) == [i \in 1..Len(s) |-> LowerChar(s[i])]

\* sub in s
Contains(sub, s) ==
    \E i \in 0..(Len(s) - Len(sub)) : SubSeq(s, i + 1, i + Len(sub)) = sub

\* SELECTORS of lines 130-134; a class selector is the list of its tokens
SELECTORS ==
    << [attr |-> "id", value |-> <<"orders">>],
       [attr |-> "class", value |-> <<"orders">>],
       [attr |-> "class", value |-> <<"table", "table-striped">>] >>

\* a <table> element e carries e.id, e.class (its class tokens) and what
\* pandas.read_html makes of it: kind "frame" (a DataFrame, e.frame), kind
\* "nodata" (text but no cell: skipped, no DataFrame), kind "notext" (no text
\* at all: not a table for read_html).
\* BeautifulSoup matches id by equality, and class when the selector is one of
\* the element's tokens or is the whole class string.
Matches(sel, e) ==
    IF sel.attr = "id"
    THEN Len(sel.value) = 1 /\ e.id = sel.value[1]
    ELSE \/ e.class = sel.value
         \/ Len(sel.value) = 1 /\ \E i \in 1..Len(e.class) : e.class[i] = sel.value[1]

\* soup.find(...): position of the first matching element, 0 for None
Find(sel, doc) ==
    IF \E i \in 1..Len(doc) : Matches(sel, doc[i])
    THEN CHOOSE i \in 1..Len(doc) :
             Matches(sel, doc[i]) /\ \A j \in 1..(i - 1) : ~Matches(sel, doc[j])
    ELSE 0

\* preferred_cols of lines 150-152
preferred_cols ==
    << <<"O", "r", "d", "e", "r">>,
       <<"O", "r", "d", "e", "r", " ", "#">>,
       <<"O", "r", "d", "e", "r", " ", "I", "D">>,
       <<"P", "O">>,
       <<"C", "u", "s", "t", "o", "m", "e", "r">>,
       <<"W", "o", "r", "k", "s", "t", "a", "t", "i", "o", "n">>,
       <<"S", "t", "a", "t", "u", "s">>,
       <<"D", "a", "t", "e">>,
       <<"D", "u", "e">> >>

\* score of line 156
Score(f) ==
    Cardinality({c \in 1..Len(f.cols) :
        \E k \in 1..Len(preferred_cols) :
            Contains(Lower(preferred_cols[k]), Lower(f.cols[c].name))})

\* mutant of BestIdx: a later table of equal score replaces the best one
RECURSIVE BestIdxLastWins(_, _, _, _)
BestIdxLastWins(tables, i, best_idx, best_score) ==
    IF i > Len(tables) THEN best_idx
    ELSE IF /\ Score(tables[i]) >= best_score
            /\ Len(tables[i].cols) > 1
            /\ Len(tables[i].index) > 0
         THEN BestIdxLastWins(tables, i + 1, i, Score(tables[i]))
         ELSE BestIdxLastWins(tables, i + 1, best_idx, best_score)

\* the loop of lines 155-159 from table i on; best_idx 0 stands for None
RECURSIVE BestIdx(_, _, _, _)
BestIdx(tables, i, best_idx, best_score) ==
    IF i > Len(tables) THEN best_idx
    ELSE IF /\ Score(tables[i]) > best_score
            /\ Len(tables[i].cols) > 1
            /\ Len(tables[i].index) > 0
         THEN BestIdx(tables, i + 1, i, Score(tables[i]))
         ELSE BestIdx(tables, i + 1, best_idx, best_score)

IsFrame(e) == e.kind = "frame"

\* pd.read_html(html) of lines 144-147: the DataFrames of the document in
\* document order, [] when read_html raises ValueError for want of a table
ReadHtml(doc) ==
    LET es == SelectSeq(doc, IsFrame) IN [i \in 1..Len(es) |-> es[i].frame]

NotFound == [err |-> "ValueError: No HTML tables found on Orders page.", df |-> NoFrame]
PandasNoTables == [err |-> "ValueError: No tables found", df |-> NoFrame]

\* mutant of Strategy2: a document without tables gives an empty frame
Strategy2EmptyDefault(doc) ==
    LET tables == ReadHtml(doc)
        best_idx == BestIdx(tables, 1, 0, -1)
    IN  IF best_idx = 0
        THEN IF tables = <<>> THEN [err |-> "none", df |-> NoFrame] ELSE CleanDf(tables[1])
        ELSE CleanDf(tables[best_idx])

\* Strategy 2, lines 143-166
Strategy2(doc) ==
    LET tables == ReadHtml(doc)
        best_idx == BestIdx(tables, 1, 0, -1)
    IN  IF best_idx = 0
        THEN IF tables = <<>> THEN NotFound ELSE CleanDf(tables[1])
        ELSE CleanDf(tables[best_idx])

\* Strategy 1 from selector k on, lines 135-141, then Strategy 2.
\* pd.read_html(str(table)) raises ValueError for an element without text,
\* and nothing catches it here.
RECURSIVE Strategy1(_, _)
Strategy1(doc, k) ==
    IF k > Len(SELECTORS) THEN Strategy2(doc)
    ELSE LET t == Find(SELECTORS[k], doc) IN
         IF t = 0 THEN Strategy1(doc, k + 1)
         ELSE IF doc[t].kind = "notext" THEN PandasNoTables
         ELSE IF doc[t].kind = "frame" THEN CleanDf(doc[t].frame)
         ELSE Strategy1(doc, k + 1)

\* mutant of ParseOrdersTable: the known selectors are not tried
ParseOrdersTableHeuristicOnly(doc) == Strategy2(doc)

ParseOrdersTable(doc) == Strategy1(doc, 1)

\* ---- the documents
PO == <<"P", "O">>
DUE == <<"D", "u", "e">>
QTY == <<"Q", "t", "y">>

TextColumn(name, cells) ==
    [name |-> name, dtype |-> "object", cells |-> [i \in 1..Len(cells) |-> Text(cells[i])]]

OneRow(cols) == [index |-> <<1>>, cols |-> cols]

\* tables of score 2, 2, 1, 0, 0, then a one-column table and a table
\* without rows
TablePool ==
    { OneRow(<<TextColumn(PO, <<<<"A", "1">>>>), TextColumn(DUE, <<<<" ", "x">>>>)>>),
      OneRow(<<TextColumn(DATE, <<<<"d">>>>), TextColumn(<<"r", "e", "p", "o", "r", "t">>, <<<<"r">>>>)>>),
      OneRow(<<TextColumn(<<"p", "o", " ", "#">>, <<<<"7">>>>), TextColumn(QTY, <<<<"2">>>>)>>),
      OneRow(<<TextColumn(<<"I", "d">>, <<<<"i">>>>), TextColumn(QTY, <<<<"3">>>>)>>),
      OneRow(<<TextColumn(QTY, <<<<"4">>>>), TextColumn(<<"I", "d">>, <<<<"j">>>>)>>),
      OneRow(<<TextColumn(<<"D", "U", "E">>, <<<<"u">>>>)>>),
      [index |-> <<>>,
       cols |-> <<TextColumn(PO, <<>>), TextColumn(DUE, <<>>), TextColumn(DATE, <<>>)>>] }

Contents ==
    {[kind |-> "frame", frame |-> f] : f \in TablePool}
    \cup {[kind |-> "nodata", frame |-> NoFrame], [kind |-> "notext", frame |-> NoFrame]}

Elements ==
    {[id |-> i, class |-> c, kind |-> x.kind, frame |-> x.frame] :
        i \in {"", "orders"},
        c \in {<<>>, <<"orders">>, <<"table", "table-striped">>},
        x \in Contents}

\* ------------------------------------------------------------------ SpecSelect
InitSelect ==
    /\ \E n \in 0..MaxTables : html \in SeqsOf(Elements, n)
    /\ parsed = NotRun
    /\ IdleClean
    /\ IdleSave
    /\ pc = "start"

Parse ==
    /\ pc = "start"
    /\ parsed' = ParseOrdersTable(html)
    /\ pc' = "parsed"
    /\ UNCHANGED <<html, cleanVars, saveVars>>

NextSelect == Parse

SpecSelect == InitSelect /\ [][NextSelect]_vars

\* ------------------------------------------------------------------ claims on parse_orders_table
MatchesKnown(e) == \E k \in 1..Len(SELECTORS) : Matches(SELECTORS[k], e)

AnySelectorMatch(doc) == \E i \in 1..Len(doc) : MatchesKnown(doc[i])

\* the parsed tables that are not degenerate
Survivors(tables) ==
    {i \in 1..Len(tables) : Len(tables[i].cols) >= 2 /\ Len(tables[i].index) >= 1}

\* the table the heuristic is to pick: the earliest of maximum score among
\* the survivors, the first table when none survives
ExpectedIdx(tables) ==
    IF Survivors(tables) = {} THEN 1
    ELSE CHOOSE i \in Survivors(tables) :
             \A j \in Survivors(tables) :
                 \/ Score(tables[j]) < Score(tables[i])
                 \/ Score(tables[j]) = Score(tables[i]) /\ i <= j

\* selector k finds an element that yields a table, and every selector
\* before k finds nothing or an element read_html makes an empty list of
FirstParseable(doc, k) ==
    /\ Find(SELECTORS[k], doc) # 0
    /\ doc[Find(SELECTORS[k], doc)].kind = "frame"
    /\ \A j \in 1..(k - 1) :
          \/ Find(SELECTORS[j], doc) = 0
          \/ doc[Find(SELECTORS[j], doc)].kind = "nodata"

\* C2 as stated: a document with a selector-matching table and a
\* non-matching table makes parse_orders_table return a selector-matching
\* table.
C2_MatchingTableReturned ==
    (/\ pc = "parsed"
     /\ \E i \in 1..Len(html) : MatchesKnown(html[i])
     /\ \E i \in 1..Len(html) : ~MatchesKnown(html[i]))
    => /\ parsed.err = "none"
       /\ \E i \in 1..Len(html) :
             /\ MatchesKnown(html[i])
             /\ html[i].kind = "frame"
             /\ parsed = CleanDf(html[i].frame)

\* C2 amended: when the first selector-found element that read_html does not
\* turn into an empty list yields a table, and no selector-found element
\* before it is without text, parse_orders_table returns that table cleaned,
\* whatever the scores and the positions of the other tables.
C2_FastPathWins ==
    pc = "parsed" =>
        \A k \in 1..Len(SELECTORS) :
            FirstParseable(html, k) =>
                parsed = CleanDf(html[Find(SELECTORS[k], html)].frame)

C2_Witness ==
    /\ pc = "parsed"
    /\ Len(html) = 2
    /\ ~MatchesKnown(html[1])
    /\ html[1].kind = "frame"
    /\ MatchesKnown(html[2])
    /\ html[2].kind = "frame"
    /\ Score(html[1].frame) > Score(html[2].frame)
    /\ html[1].frame \in {t \in TablePool : Survivors(<<t>>) # {}}
    /\ parsed = CleanDf(html[2].frame)
    /\ parsed # CleanDf(html[1].frame)

\* C3: a document without a table element makes parse_orders_table fail with
\* the not-found error; no table and no default value is returned.
C3_NoTableNotFound ==
    (pc = "parsed" /\ html = <<>>) => parsed = NotFound

C3_Witness ==
    /\ pc = "parsed"
    /\ html = <<>>
    /\ parsed.err # "none"
    /\ parsed.df = NoFrame

\* C9: when no element matches a known selector, parse_orders_table returns
\* the earliest table of maximum score among the parsed tables with at least
\* 2 columns and 1 row, and the first parsed table when there is none.
C9_HeuristicPick ==
    (pc = "parsed" /\ ~AnySelectorMatch(html) /\ ReadHtml(html) # <<>>) =>
        parsed = CleanDf(ReadHtml(html)[ExpectedIdx(ReadHtml(html))])

C9_Witness ==
    /\ pc = "parsed"
    /\ ~AnySelectorMatch(html)
    /\ Len(ReadHtml(html)) = 2
    /\ Survivors(ReadHtml(html)) = {1, 2}
    /\ Score(ReadHtml(html)[1]) = Score(ReadHtml(html)[2])
    /\ CleanDf(ReadHtml(html)[1]) # CleanDf(ReadHtml(html)[2])
    /\ parsed = CleanDf(ReadHtml(html)[1])

\* C10: when the elements the known selectors find yield no table,
\* parse_orders_table does not fail there: it goes on to the heuristic scan
\* and returns the table the scan picks.
C10_FallsThroughToScan ==
    (/\ pc = "parsed"
     /\ AnySelectorMatch(html)
     /\ \A k \in 1..Len(SELECTORS) :
           Find(SELECTORS[k], html) # 0 => html[Find(SELECTORS[k], html)].kind # "frame"
     /\ ReadHtml(html) # <<>>)
    => parsed = CleanDf(ReadHtml(html)[ExpectedIdx(ReadHtml(html))])

\* ------------------------------------------------------------------ save_outputs
Absent == [format |-> "absent", header |-> <<>>, rows |-> <<>>]

\* row i of a frame: its cells in column order (index=False: no row label)
Row(f, i) == [c \in 1..Len(f.cols) |-> f.cols[c].cells[i]]
Rows(f) == [i \in 1..Len(f.index) |-> Row(f, i)]
Header(f) == [c \in 1..Len(f.cols) |-> f.cols[c].name]

\* a field of a csv record: a missing value is written as the empty field
CsvField(c) == IF c.k = "null" THEN Text(<<>>) ELSE Text(Str(c))

\* df.to_csv(path, index=False), line 180
ToCsv(f) ==
    [format |-> "csv",
     header |-> Header(f),
     rows |-> [i \in 1..Len(f.index) |->
                 [c \in 1..Len(f.cols) |-> CsvField(f.cols[c].cells[i])]]]

\* df.to_excel(path, index=False), line 181
ToExcel(f) == [format |-> "xlsx", header |-> Header(f), rows |-> Rows(f)]

\* df.to_sql("orders", conn, if_exists="replace", index=False), lines 183-185
ToSql(f) == [format |-> "db", header |-> Header(f), rows |-> Rows(f)]

\* the writes of save_outputs in the order of lines 180-185
WriteOrder == <<"csv", "xlsx", "db">>

Written(t, f) ==
    CASE t = "csv" -> ToCsv(f)
      [] t = "xlsx" -> ToExcel(f)
      [] OTHER -> ToSql(f)

\* mutant of SaveFrom: a failed write is passed over and the later writes run
RECURSIVE SaveFromKeepGoing(_, _, _, _, _)
SaveFromKeepGoing(f, fail, i, files, done) ==
    IF i > Len(WriteOrder)
    THEN [fs |-> files, calls |-> done, saved |-> [err |-> "none", paths |-> WriteOrder]]
    ELSE IF WriteOrder[i] \in fail
         THEN SaveFromKeepGoing(f, fail, i + 1, files, Append(done, WriteOrder[i]))
         ELSE SaveFromKeepGoing(f, fail, i + 1,
                                [files EXCEPT ![WriteOrder[i]] = Written(WriteOrder[i], f)],
                                Append(done, WriteOrder[i]))

\* save_outputs from its i-th write on: a write that fails raises, the
\* exception leaves save_outputs, and a failed write leaves no file
RECURSIVE SaveFrom(_, _, _, _, _)
SaveFrom(f, fail, i, files, done) ==
    IF i > Len(WriteOrder)
    THEN [fs |-> files, calls |-> done, saved |-> [err |-> "none", paths |-> WriteOrder]]
    ELSE IF WriteOrder[i] \in fail
         THEN [fs |-> files,
               calls |-> Append(done, WriteOrder[i]),
               saved |-> [err |-> "OSError", paths |-> <<>>]]
         ELSE SaveFrom(f, fail, i + 1,
                       [files EXCEPT ![WriteOrder[i]] = Written(WriteOrder[i], f)],
                       Append(done, WriteOrder[i]))

\* the output paths of ScrapeConfig, lines 65-67
OutputPaths == {"csv", "xlsx", "db"}

\* ---- the tables to save
NumberColumn(name, ns) ==
    [name |-> name, dtype |-> "number", cells |-> [i \in 1..Len(ns) |-> Num(ns[i])]]

\* an order table: order_id, date (as a day number) and total
OrderTable(ids, dates, totals) ==
    [index |-> [i \in 1..Len(ids) |-> i],
     cols |-> <<NumberColumn(ORDER_ID, ids), NumberColumn(DATE, dates),
                NumberColumn(TOTAL, totals)>>]

\* ------------------------------------------------------------------ SpecSave
InitSave ==
    /\ \E r \in 0..MaxRows :
          \E ids \in SeqsOf({1, 2}, r), dates \in SeqsOf({1, 2}, r), totals \in SeqsOf({10, 20}, r) :
              orders = OrderTable(ids, dates, totals)
    /\ failing \in SUBSET OutputPaths
    /\ fs = [t \in OutputPaths |-> Absent]
    /\ calls = <<>>
    /\ saved = [err |-> "notrun", paths |-> <<>>]
    /\ IdleClean
    /\ IdleSelect
    /\ pc = "start"

SaveOutputs ==
    /\ pc = "start"
    /\ LET r == SaveFrom(orders, failing, 1, fs, <<>>) IN
          /\ fs' = r.fs
          /\ calls' = r.calls
          /\ saved' = r.saved
    /\ pc' = "saved"
    /\ UNCHANGED <<orders, failing, cleanVars, selectVars>>

NextSave == SaveOutputs

SpecSave == InitSave /\ [][NextSave]_vars

\* ------------------------------------------------------------------ claims on save_outputs
\* does row a come before row b in canonical order: by order identifier,
\* then by date (columns 1 and 2 of an order table)
Before(a, b) == a[1].n < b[1].n \/ (a[1].n = b[1].n /\ a[2].n < b[2].n)

\* insert row x into the sorted rows after every row it does not come before
RECURSIVE InsertRow(_, _)
InsertRow(sorted, x) ==
    IF sorted = <<>> THEN <<x>>
    ELSE IF Before(x, sorted[Len(sorted)])
         THEN Append(InsertRow(SubSeq(sorted, 1, Len(sorted) - 1), x), sorted[Len(sorted)])
         ELSE Append(sorted, x)

\* the rows in canonical order, ties in encounter order
RECURSIVE CanonicalRows(_)
CanonicalRows(rows) ==
    IF rows = <<>> THEN <<>>
    ELSE InsertRow(CanonicalRows(SubSeq(rows, 1, Len(rows) - 1)), rows[Len(rows)])

DigitValue(ch) == (CHOOSE i \in 1..Len(DigitChar) : DigitChar[i] = ch) - 1

IsDigits(t) ==
    t # <<>> /\ \A i \in 1..Len(t) : \E d \in 1..Len(DigitChar) : DigitChar[d] = t[i]

RECURSIVE ParseInt(_)
ParseInt(t) ==
    IF Len(t) = 1 THEN DigitValue(t[1])
    ELSE 10 * ParseInt(SubSeq(t, 1, Len(t) - 1)) + DigitValue(t[Len(t)])

\* a cell as read back from an artifact: pandas.read_csv turns an empty field
\* into a missing value and a field of digits into a number
ReadCell(format, c) ==
    IF format # "csv" THEN c
    ELSE IF c.s = <<>> THEN Null
    ELSE IF IsDigits(c.s) THEN Num(ParseInt(c.s))
    ELSE c

ReadBack(file) ==
    [i \in 1..Len(file.rows) |->
        [c \in 1..Len(file.rows[i]) |-> ReadCell(file.format, file.rows[i][c])]]

\* the four targets of the specification
Targets == {"csv", "xlsx", "json", "db"}

\* C4: save_outputs writes the table to csv, xlsx, json and db, and each
\* artifact reads back as the rows of the table in canonical order.
C4_FourArtifactsCanonical ==
    (pc = "saved" /\ saved.err = "none") =>
        \A t \in Targets :
            /\ t \in DOMAIN fs
            /\ fs[t] # Absent
            /\ ReadBack(fs[t]) = CanonicalRows(Rows(orders))

\* C7 as stated: whichever write fails, every target's write is attempted,
\* the artifacts written stay, and the caller receives the targets that
\* succeeded.
C7_WritesIndependent ==
    pc = "saved" =>
        /\ \A t \in OutputPaths : \E i \in 1..Len(calls) : calls[i] = t
        /\ \A t \in OutputPaths \ failing : fs[t] = Written(t, orders)
        /\ {saved.paths[i] : i \in 1..Len(saved.paths)} = OutputPaths \ failing

\* position in WriteOrder of the first write that fails, 0 when none does
FirstFailure ==
    IF \E i \in 1..Len(WriteOrder) : WriteOrder[i] \in failing
    THEN CHOOSE i \in 1..Len(WriteOrder) :
             WriteOrder[i] \in failing /\ \A j \in 1..(i - 1) : WriteOrder[j] \notin failing
    ELSE 0

\* C7 amended: save_outputs writes csv, xlsx, db in that order; the first
\* write that fails raises out of save_outputs, so the later writes are not
\* attempted and nothing is returned, and the artifacts written before it
\* stay in place.
C7_FirstFailureAborts ==
    (pc = "saved" /\ FirstFailure # 0) =>
        /\ calls = SubSeq(WriteOrder, 1, FirstFailure)
        /\ saved = [err |-> "OSError", paths |-> <<>>]
        /\ \A i \in 1..Len(WriteOrder) :
              fs[WriteOrder[i]] =
                  IF i < FirstFailure THEN Written(WriteOrder[i], orders) ELSE Absent

C7_Witness ==
    /\ pc = "saved"
    /\ failing = {"xlsx"}
    /\ Len(orders.index) > 0
    /\ fs["csv"] = ToCsv(orders)
    /\ fs["db"] = Absent
    /\ calls = <<"csv", "xlsx">>

====
